---- MODULE Spec2Model ----
(***************************************************************************)
(* A model of the json-rpc-rs dispatch engine: the message classifier      *)
(* (types.rs, Message::from_json), the threaded server loop (server.rs,    *)
(* Server::run with its ThreadPool, handlers mutex, response channel and   *)
(* BatchContext table), the synchronous entry point (jsonrpc.rs,           *)
(* JsonRpc::call), Message::to_json, Methods::process_message, serve       *)
(* (lib.rs) and ShutdownSignal (shutdown.rs).                              *)
(*                                                                         *)
(* JSON values are abstracted to what the code inspects.  An element is a  *)
(* record of strings: t is the JSON type ("obj", or "num" for a scalar     *)
(* such as 1), and jsonrpc/id/method/params/error/result are the member    *)
(* of that name, ABSENT when the key is missing.                           *)
(***************************************************************************)
EXTENDS Integers, Sequences, FiniteSets, TLC

\* ------------------------------------------------------------------ bounds

\* Number of messages the transport delivers before it can only report EOF.
MaxMsgs == 2

\* Number of Requests the peer sends in all, single or inside batches.
MaxJobs == 2

\* Number of Requests the peer sends in all in the second run of the server,
\* one more than the pool has workers.
MaxJobs2 == 3

\* Server.thread_pool_size, the number of workers ThreadPool::new spawns.
PoolSize == 2

\* The calls of signal() on a ShutdownSignal taken alone.
MaxSignals == 3

\* ------------------------------------------------------------- JSON values

ABSENT == "absent"

\* serde_json::from_value::<RequestId>: null, a u64 or a string deserialize;
\* every other JSON type (bool, negative or fractional number, object) fails.
ValidIds == {"null", "n1", "n2", "sa"}

IdOk(v) == v \in ValidIds

\* The names registered with Server::register / JsonRpc::add in this model:
\* the two handlers of examples/basic_server.rs, one that panics, and one
\* that returns Error::rpc with a code of its own.
Registered == {"hello", "internal_error", "panic", "code"}

Obj(jsonrpc, id, method, params, error, result) ==
    [t |-> "obj", jsonrpc |-> jsonrpc, id |-> id, method |-> method,
     params |-> params, error |-> error, result |-> result]

\* A JSON scalar such as 1: Value::get returns None for every key.
Scalar ==
    [t |-> "num", jsonrpc |-> ABSENT, id |-> ABSENT, method |-> ABSENT,
     params |-> ABSENT, error |-> ABSENT, result |-> ABSENT]

Req(id, method, params) == Obj("2.0", id, method, params, ABSENT, ABSENT)
Notif(method, params) == Obj("2.0", ABSENT, method, params, ABSENT, ABSENT)

\* A raw input string handed over by the transport: text that is not JSON,
\* one JSON value, or a JSON array of values.
Garbage == [shape |-> "garbage", elems |-> <<>>]
Single(e) == [shape |-> "single", elems |-> <<e>>]
Array(es) == [shape |-> "array", elems |-> es]

\* value.get(key).is_some()
Has(e, key) == e[key] # ABSENT

\* ------------------------------------------------------------ wire types

NoError == [code |-> 0, message |-> ABSENT]

\* types::Error::new
ErrorNew(code, message) == [code |-> code, message |-> message]

\* parse_error with the bug of the code of an invalid request.
parse_error_as_invalid(message) == ErrorNew(-32600, message)

parse_error(message) == ErrorNew(-32700, message)
invalid_request(message) == ErrorNew(-32600, message)
method_not_found(message) == ErrorNew(-32601, message)
internal_error(message) == ErrorNew(-32603, message)

\* Response::success.  src is history, not data: the place (message number,
\* element position) of the input element the response was built for.
ResponseSuccess(id, result, src) ==
    [id |-> id, result |-> result, error |-> NoError, src |-> src]

\* Response::error
ResponseError(id, error, src) ==
    [id |-> id, result |-> ABSENT, error |-> error, src |-> src]

\* None of Option<Response> in BatchContext.responses
NoResponse == [id |-> "NONE", result |-> ABSENT, error |-> NoError, src |-> <<0, 0>>]

\* What serde_json::to_string(&Response) puts on the wire
\* (skip_serializing_if = "Option::is_none" on result and error).
HasResult(r) == r.result # ABSENT
HasError(r) == r.error # NoError

\* ------------------------------------------------------- the classifier

Invalid(pos) ==
    [kind |-> "Invalid", jsonrpc |-> ABSENT, id |-> ABSENT, method |-> ABSENT,
     params |-> ABSENT, result |-> ABSENT, error |-> NoError, pos |-> pos]

\* #[derive(Deserialize)] for Request: an object whose jsonrpc and method are
\* strings and whose id is a RequestId; unknown members are ignored.
DeserRequestOk(e) ==
    /\ e.t = "obj"
    /\ e.jsonrpc \notin {ABSENT, "nonstr"}
    /\ IdOk(e.id)
    /\ e.method \notin {ABSENT, "nonstr"}

\* #[derive(Deserialize)] for Notification
DeserNotificationOk(e) ==
    /\ e.t = "obj"
    /\ e.jsonrpc \notin {ABSENT, "nonstr"}
    /\ e.method \notin {ABSENT, "nonstr"}

\* DeserResponseOk with the bug of requiring a result member.
DeserResponseNeedsResult(e) ==
    /\ e.t = "obj"
    /\ e.jsonrpc \notin {ABSENT, "nonstr"}
    /\ IdOk(e.id)
    /\ e.error \in {"null", "errobj"}
    /\ e.result # ABSENT

\* #[derive(Deserialize)] for Response: result and error are Options, so a
\* missing key and a null both give None; error must otherwise be an Error
\* object.  The jsonrpc member is any string.
DeserResponseOk(e) ==
    /\ e.t = "obj"
    /\ e.jsonrpc \notin {ABSENT, "nonstr"}
    /\ IdOk(e.id)
    /\ e.error \in {"null", "errobj"}

\* Option<serde_json::Value>: a missing key and a null both give None.
OptValue(v) == IF v \in {ABSENT, "null"} THEN ABSENT ELSE v

PeerError == ErrorNew(-32000, "peer")

\* FromJsonInternal with the bug of not checking the jsonrpc member.
FromJsonInternalAnyVersion(e, pos) ==
    IF Has(e, "id")
    THEN IF Has(e, "error")
         THEN IF DeserResponseOk(e)
              THEN [kind |-> "Response", jsonrpc |-> e.jsonrpc, id |-> e.id, method |-> ABSENT,
                    params |-> ABSENT, result |-> OptValue(e.result),
                    error |-> IF e.error = "errobj" THEN PeerError ELSE NoError,
                    pos |-> pos]
              ELSE Invalid(pos)
         ELSE IF Has(e, "method")
              THEN IF DeserRequestOk(e)
                   THEN [kind |-> "Request", jsonrpc |-> e.jsonrpc, id |-> e.id,
                         method |-> e.method,
                         params |-> OptValue(e.params), result |-> ABSENT,
                         error |-> NoError, pos |-> pos]
                   ELSE Invalid(pos)
              ELSE Invalid(pos)
    ELSE IF DeserNotificationOk(e)
         THEN [kind |-> "Notification", jsonrpc |-> e.jsonrpc, id |-> ABSENT,
               method |-> e.method, params |-> OptValue(e.params),
               result |-> ABSENT, error |-> NoError,
               pos |-> pos]
         ELSE Invalid(pos)

\* Message::from_json_internal: one element, never a batch.
FromJsonInternal(e, pos) ==
    IF Has(e, "id")
    THEN IF Has(e, "error")
         THEN IF DeserResponseOk(e)
              THEN [kind |-> "Response", jsonrpc |-> e.jsonrpc, id |-> e.id, method |-> ABSENT,
                    params |-> ABSENT, result |-> OptValue(e.result),
                    error |-> IF e.error = "errobj" THEN PeerError ELSE NoError,
                    pos |-> pos]
              ELSE Invalid(pos)
         ELSE IF Has(e, "method")
              THEN IF DeserRequestOk(e) /\ e.jsonrpc = "2.0"
                   THEN [kind |-> "Request", jsonrpc |-> e.jsonrpc, id |-> e.id,
                         method |-> e.method,
                         params |-> OptValue(e.params), result |-> ABSENT,
                         error |-> NoError, pos |-> pos]
                   ELSE Invalid(pos)
              ELSE Invalid(pos)
    ELSE IF DeserNotificationOk(e) /\ e.jsonrpc = "2.0"
         THEN [kind |-> "Notification", jsonrpc |-> e.jsonrpc, id |-> ABSENT,
               method |-> e.method, params |-> OptValue(e.params),
               result |-> ABSENT, error |-> NoError,
               pos |-> pos]
         ELSE Invalid(pos)

\* The Response a batch element that failed classification is replaced by.
SynthResponse(id, pos) ==
    [kind |-> "Response", jsonrpc |-> "2.0", id |-> id, method |-> ABSENT,
     params |-> ABSENT, result |-> ABSENT,
     error |-> invalid_request("Invalid Request"), pos |-> pos]

\* BatchFailed with the bug of losing the id of the failed element.
BatchFailedNullId(e, pos) ==
    IF Has(e, "id")
    THEN <<SynthResponse("null", pos)>>
    ELSE IF Has(e, "method")
         THEN <<>>
         ELSE <<SynthResponse("null", pos)>>

\* The Err arm of the batch loop of Message::from_json: the messages (none or
\* one) that stand for a failed element.
BatchFailed(e, pos) ==
    IF Has(e, "id")
    THEN IF IdOk(e.id)
         THEN <<SynthResponse(e.id, pos)>>
         ELSE <<SynthResponse("null", pos)>>
    ELSE IF Has(e, "method")
         THEN <<>>
         ELSE <<SynthResponse("null", pos)>>

RECURSIVE BatchMessages(_, _)
BatchMessages(es, pos) ==
    IF pos > Len(es)
    THEN <<>>
    ELSE LET m == FromJsonInternal(es[pos], pos)
         IN  (IF m.kind = "Invalid" THEN BatchFailed(es[pos], pos) ELSE <<m>>)
             \o BatchMessages(es, pos + 1)

\* FromJsonSingle with the bug of reading a missing id as a null id.
FromJsonSingleIdDefault(e) ==
    FromJsonInternal([e EXCEPT !.id = IF @ = ABSENT THEN "null" ELSE @], 0)

\* The single-message path of Message::from_json (written out a second time
\* in the source, after the array branch).
FromJsonSingle(e) ==
    IF Has(e, "id")
    THEN IF Has(e, "error")
         THEN IF DeserResponseOk(e)
              THEN [kind |-> "Response", jsonrpc |-> e.jsonrpc, id |-> e.id, method |-> ABSENT,
                    params |-> ABSENT, result |-> OptValue(e.result),
                    error |-> IF e.error = "errobj" THEN PeerError ELSE NoError,
                    pos |-> 0]
              ELSE Invalid(0)
         ELSE IF Has(e, "method")
              THEN IF ~DeserRequestOk(e)
                   THEN Invalid(0)
                   ELSE IF e.jsonrpc # "2.0"
                        THEN Invalid(0)
                        ELSE [kind |-> "Request", jsonrpc |-> e.jsonrpc, id |-> e.id,
                              method |-> e.method, params |-> OptValue(e.params),
                              result |-> ABSENT, error |-> NoError, pos |-> 0]
              ELSE Invalid(0)
    ELSE IF ~DeserNotificationOk(e)
         THEN Invalid(0)
         ELSE IF e.jsonrpc # "2.0"
              THEN Invalid(0)
              ELSE [kind |-> "Notification", jsonrpc |-> e.jsonrpc, id |-> ABSENT,
                    method |-> e.method, params |-> OptValue(e.params),
                    result |-> ABSENT, error |-> NoError, pos |-> 0]

\* FromJson with the bug of taking an empty array for a batch of no messages.
FromJsonEmptyBatch(in) ==
    IF in.shape = "array"
    THEN [kind |-> "Batch", msgs |-> BatchMessages(in.elems, 1)]
    ELSE LET m == FromJsonSingle(in.elems[1])
         IN  [kind |-> m.kind, msgs |-> <<m>>]

\* Message::from_json on parsed JSON: [kind, msgs].  kind is "Batch" for a
\* non-empty array, "Invalid" for Err(InvalidRequest), else the kind of the
\* single message, which is msgs[1].
FromJson(in) ==
    IF in.shape = "array"
    THEN IF Len(in.elems) = 0
         THEN [kind |-> "Invalid", msgs |-> <<>>]
         ELSE [kind |-> "Batch", msgs |-> BatchMessages(in.elems, 1)]
    ELSE LET m == FromJsonSingle(in.elems[1])
         IN  [kind |-> m.kind, msgs |-> <<m>>]

\* ExtractId with the bug of never looking at the id.
ExtractIdAlwaysNull(in) == "null"

\* value.get("id").and_then(|v| from_value::<RequestId>(v).ok()), with
\* unwrap_or(RequestId::Null) applied: Value::get on an array gives None.
ExtractId(in) ==
    IF in.shape = "single" /\ IdOk(in.elems[1].id) THEN in.elems[1].id ELSE "null"

\* ---------------------------------------------------------------- handlers

\* request.params.unwrap_or(serde_json::Value::Null)
ParamsOrNull(params) == IF params = ABSENT THEN "null" ELSE params

Outcome(tag, value, code, message) ==
    [tag |-> tag, value |-> value, code |-> code, message |-> message]

\* HandlerCall with the bug of reporting params that do not deserialize as
\* an RPC error with the code of invalid params.
HandlerCallInvalidParams(method, params) ==
    CASE method = "hello" ->
            IF params = "world"
            THEN Outcome("ok", "Hello, world!", 0, ABSENT)
            ELSE IF params = "earth"
                 THEN Outcome("rpc", ABSENT, -32000, "text must be 'world'")
                 ELSE Outcome("rpc", ABSENT, -32602, "Invalid params")
      [] method = "internal_error" ->
            IF params = "null"
            THEN Outcome("err", ABSENT, 0, "Protocol error: Internal error occurred")
            ELSE Outcome("rpc", ABSENT, -32602, "Invalid params")
      [] method = "code" -> Outcome("rpc", ABSENT, 1, "application error")
      [] OTHER -> Outcome("panic", ABSENT, 0, ABSENT)

\* HandlerWrapper::call for the registered handlers: deserialize the params
\* into the handler's parameter type, run the handler, serialize the result.
\*   hello(params: String): "world" greets, any other string is
\*     Err(Error::rpc(-32000, ..)); params that are no string fail to
\*     deserialize (Error::ParseError).
\*   internal_error(params: ()): returns Err(Error::protocol(..)).
\*   code(params: Value): returns Err(Error::rpc(1, ..)).
\*   panic: the handler panics.
HandlerCall(method, params) ==
    CASE method = "hello" ->
            IF params = "world"
            THEN Outcome("ok", "Hello, world!", 0, ABSENT)
            ELSE IF params = "earth"
                 THEN Outcome("rpc", ABSENT, -32000, "text must be 'world'")
                 ELSE Outcome("err", ABSENT, 0, "Protocol error: invalid type")
      [] method = "internal_error" ->
            IF params = "null"
            THEN Outcome("err", ABSENT, 0, "Protocol error: Internal error occurred")
            ELSE Outcome("err", ABSENT, 0, "Protocol error: invalid type")
      [] method = "code" -> Outcome("rpc", ABSENT, 1, "application error")
      [] OTHER -> Outcome("panic", ABSENT, 0, ABSENT)

\* The match on handler.call(params) in process_request_with_batch (and, with
\* the same arms, in JsonRpc::call).
OutcomeResponse(o, id, src) ==
    CASE o.tag = "ok" -> ResponseSuccess(id, o.value, src)
      [] o.tag = "rpc" -> ResponseError(id, ErrorNew(o.code, o.message), src)
      [] OTHER -> ResponseError(id, ErrorNew(-32603, o.message), src)

\* UnknownMethod with the bug of answering with a null id.
UnknownMethodNullId(id, method, src) ==
    ResponseError("null", method_not_found("Unknown method: " \o method), src)

UnknownMethod(id, method, src) ==
    ResponseError(id, method_not_found("Unknown method: " \o method), src)

\* ------------------------------------------------------------------ state

VARIABLES
    pc,             \* where the thread that called run (or call) stands
    shutdown,       \* ShutdownSignal.inner
    observed,       \* history: the loop has read the flag as set
    received,       \* history: the messages receive_message has returned
    cur,            \* the Message::Batch / Notification being dispatched
    cursor,         \* process_batch: position in messages
    request_index,  \* process_batch: next slot index
    jobs,           \* ThreadPool's job channel
    wstate,         \* per worker: idle, wait, running, send, dead
    wjob,           \* per worker: the job it took, and the response it built
    lock,           \* the handlers mutex: holder (0 is free) and poison flag
    respChan,       \* the ResponseData channel
    batches,        \* batch id -> BatchContext
    next_batch_id,
    out,            \* what send_message has written, in order
    invoked,        \* history: the elements whose handler has been called
    dispatched_at_signal, \* history: the requests dispatched before signal()
    callIn,         \* JsonRpc::call: the input string
    callOut,        \* JsonRpc::call: the returned Option<String>
    signal_calls    \* history: how often signal() has been called

vars == <<pc, shutdown, observed, received, cur, cursor, request_index, jobs,
          wstate, wjob, lock, respChan, batches, next_batch_id, out, invoked,
          dispatched_at_signal, callIn, callOut, signal_calls>>

Workers == 1..PoolSize

NoBatch == -1

\* ResponseData
ResponseData(response, batch_id, batch_index) ==
    [response |-> response, batch_id |-> batch_id, batch_index |-> batch_index]

\* A job closure: the request it captured and its batch tag.
Job(msg, msgno, batch_id, batch_index) ==
    [id |-> msg.id, method |-> msg.method, params |-> msg.params,
     src |-> <<msgno, msg.pos>>, batch_id |-> batch_id,
     batch_index |-> batch_index, response |-> NoResponse]

NoJob ==
    [id |-> ABSENT, method |-> ABSENT, params |-> ABSENT, src |-> <<0, 0>>,
     batch_id |-> NoBatch, batch_index |-> NoBatch, response |-> NoResponse]

\* One send_message: a single Response, or an array of them.  tag and order
\* are history: the batch_id the ResponseData carried (NoBatch for none), and
\* for an array the slot indices in the order the slots were filled.
WriteSingle(response, tag) ==
    [kind |-> "single", resps |-> <<response>>, tag |-> tag, order |-> <<>>]
WriteArray(responses, tag, order) ==
    [kind |-> "array", resps |-> responses, tag |-> tag, order |-> order]
NoOutput == [kind |-> "none", resps |-> <<>>, tag |-> NoBatch, order |-> <<>>]
Panicked == [kind |-> "panic", resps |-> <<>>, tag |-> NoBatch, order |-> <<>>]

\* ShutdownSignal::is_shutdown_requested: inner.load(SeqCst)
is_shutdown_requested(inner) == inner

\* ShutdownSignal::check_shutdown
check_shutdown(inner) ==
    IF is_shutdown_requested(inner) THEN "Err" ELSE "Ok"

\* ------------------------------------------------------------------ inputs

NoInput == [shape |-> "none", elems |-> <<>>]

\* Err(e) of receive_message other than UnexpectedEof
IoError == [shape |-> "ioerror", elems |-> <<>>]

\* A peer Response whose error member is null and that has no result.
PeerNeither == Obj("2.0", "n2", ABSENT, ABSENT, "null", ABSENT)

\* The strings the transport of Server::run can deliver.
ServerInputs ==
    { Garbage,
      Single(Obj(ABSENT, "n1", "hello", "world", ABSENT, ABSENT)),
      Single(Req("n1", "hello", "world")),
      Single(Req("sa", "nope", ABSENT)),
      Single(Req("n2", "panic", ABSENT)),
      Single(Notif("hello", "world")),
      Array(<<>>),
      Array(<<Req("n1", "hello", "world"),
              Obj(ABSENT, ABSENT, ABSENT, ABSENT, ABSENT, "x"),
              Obj("1.0", ABSENT, "hello", "world", ABSENT, ABSENT),
              Req("n2", "hello", "earth")>>),
      Array(<<Req("null", "internal_error", ABSENT), Notif("hello", "world"),
              PeerNeither>>),
      Array(<<Notif("hello", "world"), Notif("nope", ABSENT)>>) }

\* A second run of the server, on another set of strings: a single peer
\* Response, a single broken notification, a Request whose params do not fit
\* its handler, a batch of malformed elements and one Request, and a batch
\* of three Requests, one more than the pool has workers.  The
\* transport delivers these or reports EOF; the thread of run is scheduled,
\* so the loop after the main loop goes on whenever it can (the weak
\* fairness of FinalRecv and FinalTimeout); nothing is assumed of the
\* workers, whose handlers may never return.  JsonRpc::call is tried on the
\* same strings as before.
ServerInputs2 ==
    { Single(Obj("2.0", "n1", ABSENT, ABSENT, "errobj", ABSENT)),
      Single(Obj("1.0", ABSENT, "hello", "world", ABSENT, ABSENT)),
      Single(Req("sa", "hello", ABSENT)),
      Array(<<Obj("1.0", "sa", "hello", "world", ABSENT, ABSENT),
              Obj("2.0", "true", "hello", "world", ABSENT, ABSENT),
              Scalar,
              Req("n2", "hello", "world")>>),
      Array(<<Req("n1", "hello", "world"),
              Req("n2", "hello", "earth"),
              Req("sa", "code", ABSENT)>>) }

\* The Requests the peer may send in all: the strings of the second run
\* come with a budget of their own.
JobBudget(in) == IF in \in ServerInputs2 THEN MaxJobs2 ELSE MaxJobs

\* ------------------------------------------------------------- Server::run

\* RequestCount with the bug of counting the Requests only.
RequestCountRequestsOnly(msgs) ==
    Len(SelectSeq(msgs, LAMBDA m : m.kind = "Request"))

\* RequestCount with the bug of counting every message of the batch.
RequestCountAll(msgs) == Len(msgs)

\* messages.iter().filter(|m| matches!(m, Request(_) | Response(_))).count()
RequestCount(msgs) ==
    Len(SelectSeq(msgs, LAMBDA m : m.kind \in {"Request", "Response"}))

\* BatchContext { responses: vec![None; request_count], expected_count };
\* order is history: the slot indices in the order they were filled.
BatchContext(request_count) ==
    [responses |-> [i \in 1..request_count |-> NoResponse],
     expected_count |-> request_count, order |-> <<>>]

\* batch.responses.iter().filter(|r| r.is_some()).count()
Completed(responses) == Len(SelectSeq(responses, LAMBDA r : r # NoResponse))

\* batch.responses.drain(..).flatten().collect()
Flatten(responses) == SelectSeq(responses, LAMBDA r : r # NoResponse)

\* StoreSlot with the bug of filling the slots in the order of arrival.
StoreSlotByArrival(responses, batch_index, response) ==
    [responses EXCEPT ![Completed(responses) + 1] = response]

\* batch.responses[batch_index] = Some(response_data.response)
StoreSlot(responses, batch_index, response) ==
    [responses EXCEPT ![batch_index + 1] = response]

Remove(f, k) == [x \in DOMAIN f \ {k} |-> f[x]]

\* The Message::Response(response) carried by a batch, as a Response value.
AsResponse(msg, msgno) ==
    [id |-> msg.id, result |-> msg.result, error |-> msg.error,
     src |-> <<msgno, msg.pos>>]

\* ------------------------------------------------------------ JsonRpc::call

\* The elements JsonRpc::call is tried on: every combination of members.
CallElems ==
    { Obj(j, i, m, p, e, r) :
        j \in {ABSENT, "2.0", "1.0", "nonstr"},
        i \in {ABSENT, "null", "n1", "sa", "true"},
        m \in {ABSENT, "hello", "internal_error", "panic", "nope", "nonstr"},
        p \in {ABSENT, "world", "earth"},
        e \in {ABSENT, "null", "errobj", "str"},
        r \in {ABSENT, "x"} } \cup {Scalar}

BatchElems ==
    { Req("n1", "hello", "world"), Req("sa", "hello", "earth"),
      Req("null", "nope", ABSENT), Notif("hello", "world"),
      Notif("hello", ABSENT), Notif("nope", ABSENT), PeerNeither,
      Obj("2.0", "n1", ABSENT, ABSENT, "errobj", "x"),
      Obj("1.0", "n1", "hello", "world", ABSENT, ABSENT),
      Obj("1.0", ABSENT, "hello", "world", ABSENT, ABSENT),
      Obj(ABSENT, "true", "hello", ABSENT, ABSENT, ABSENT), Scalar }

CallInputs ==
    {Garbage, Array(<<>>)}
    \cup { Single(e) : e \in CallElems }
    \cup { Array(<<e>>) : e \in BatchElems }
    \cup { Array(<<e, f>>) : e \in BatchElems, f \in BatchElems }

\* The match on id_value in call: null, n.as_u64() and a string give an id.
CallRequestId(in) ==
    IF in.shape = "single" /\ in.elems[1].id \in {"null", "n1", "n2", "sa"}
    THEN in.elems[1].id
    ELSE "null"

\* The Message::Request arms of call: look the handler up, await it, build
\* the response.  A handler that panics unwinds call.
CallRequest(msg) ==
    IF msg.method \in Registered
    THEN LET o == HandlerCall(msg.method, ParamsOrNull(msg.params))
         IN  IF o.tag = "panic"
             THEN <<>>
             ELSE <<OutcomeResponse(o, msg.id, <<1, msg.pos>>)>>
    ELSE <<UnknownMethod(msg.id, msg.method, <<1, msg.pos>>)>>

\* Whether serving msg in call panics.
CallPanics(msg) ==
    /\ msg.kind \in {"Request", "Notification"}
    /\ msg.method \in Registered
    /\ HandlerCall(msg.method, ParamsOrNull(msg.params)).tag = "panic"

\* The loop over messages in the Message::Batch arm of call: the responses
\* pushed, in order.
RECURSIVE CallBatch(_, _)
CallBatch(msgs, i) ==
    IF i > Len(msgs)
    THEN <<>>
    ELSE LET msg == msgs[i]
             here == CASE msg.kind = "Request" -> CallRequest(msg)
                       [] msg.kind = "Notification" -> <<>>
                       [] OTHER -> <<AsResponse(msg, 1)>>
         IN  here \o CallBatch(msgs, i + 1)

\* JsonRpc::call: the Option<String> it returns.
JsonRpcCall(in) ==
    IF in.shape = "garbage"
    THEN WriteSingle(ResponseError("null", parse_error("Parse error"), <<1, 0>>),
                     NoBatch)
    ELSE LET m == FromJson(in)
         IN  IF m.kind = "Invalid"
             THEN WriteSingle(ResponseError(CallRequestId(in),
                                  invalid_request("Invalid Request"), <<1, 0>>),
                              NoBatch)
             ELSE IF \E i \in 1..Len(m.msgs) : CallPanics(m.msgs[i])
             THEN Panicked
             ELSE IF m.kind = "Request"
             THEN WriteSingle(CallRequest(m.msgs[1])[1], NoBatch)
             ELSE IF m.kind = "Batch"
             THEN WriteArray(CallBatch(m.msgs, 1), NoBatch, <<>>)
             ELSE NoOutput

Init ==
    /\ \/ pc = "top" /\ callIn = NoInput
       \/ pc = "call" /\ callIn \in CallInputs
    /\ shutdown = FALSE
    /\ observed = FALSE
    /\ received = <<>>
    /\ cur = [msgs |-> <<>>, batch_id |-> NoBatch]
    /\ cursor = 0
    /\ request_index = 0
    /\ jobs = <<>>
    /\ wstate = [w \in Workers |-> "idle"]
    /\ wjob = [w \in Workers |-> NoJob]
    /\ lock = [holder |-> 0, poisoned |-> FALSE]
    /\ respChan = <<>>
    /\ batches = <<>>
    /\ next_batch_id = 0
    /\ out = <<>>
    /\ invoked = {}
    /\ dispatched_at_signal = {}
    /\ callOut = NoOutput
    /\ signal_calls = 0

\* How run classifies a delivered string: "garbage" when serde_json::from_str
\* fails, "ioerror" when there was no string, else the outcome of from_json.
KindOf(in) ==
    IF in.shape \in {"garbage", "ioerror"} THEN in.shape ELSE FromJson(in).kind

\* The places <<message number, element position>> of the Requests of the
\* k-th delivered string (a single Request has position 0).
RequestsOf(k) ==
    IF KindOf(received[k]) \in {"Request", "Batch"}
    THEN LET msgs == FromJson(received[k]).msgs
         IN  {<<k, msgs[i].pos>> : i \in {n \in 1..Len(msgs) : msgs[n].kind = "Request"}}
    ELSE {}

\* The number of Requests a string holds.
RequestsIn(in) ==
    IF KindOf(in) \in {"Request", "Batch"}
    THEN Len(SelectSeq(FromJson(in).msgs, LAMBDA m : m.kind = "Request"))
    ELSE 0

\* The requests handed to the thread pool so far: those of every delivered
\* string, less the elements process_batch has not come to yet.
Dispatched ==
    UNION {RequestsOf(k) : k \in 1..Len(received)}
    \ (IF pc = "batch"
       THEN {<<Len(received), cur.msgs[i].pos>> : i \in cursor..Len(cur.msgs)}
       ELSE {})

\* ShutdownSignal::signal, called from any other thread.
SignalToggles ==
    /\ pc \in {"top", "recv", "notify", "batch", "drain", "flag"}
    /\ \/ ~shutdown
       \/ pc = "flag" /\ signal_calls < MaxSignals
    /\ shutdown' = ~shutdown
    /\ signal_calls' = signal_calls + 1
    /\ dispatched_at_signal' = IF shutdown THEN dispatched_at_signal ELSE Dispatched
    /\ UNCHANGED <<pc, observed, received, cur, cursor, request_index, jobs,
                   wstate, wjob, lock, respChan, batches, next_batch_id, out,
                   invoked, callIn, callOut>>

\* ShutdownSignal::signal, called on any clone (the clones share the one
\* AtomicBool): store(true).  During a run of the server it is called once;
\* on the signal alone ("flag") it is called again and again.
Signal ==
    /\ pc \in {"top", "recv", "notify", "batch", "drain", "flag"}
    /\ \/ ~shutdown
       \/ pc = "flag" /\ signal_calls < MaxSignals
    /\ shutdown' = TRUE
    /\ signal_calls' = signal_calls + 1
    /\ dispatched_at_signal' = IF shutdown THEN dispatched_at_signal ELSE Dispatched
    /\ UNCHANGED <<pc, observed, received, cur, cursor, request_index, jobs,
                   wstate, wjob, lock, respChan, batches, next_batch_id, out,
                   invoked, callIn, callOut>>

\* LoopTop with the bug of a missing break.
LoopTopNoBreak ==
    /\ pc = "top"
    /\ pc' = "recv"
    /\ observed' = (observed \/ shutdown)
    /\ UNCHANGED <<shutdown, received, cur, cursor, request_index, jobs,
                   wstate, wjob, lock, respChan, batches, next_batch_id, out,
                   invoked, callIn, signal_calls, callOut, dispatched_at_signal>>

\* Top of the loop of run: the shutdown check.
LoopTop ==
    /\ pc = "top"
    /\ IF shutdown
       THEN pc' = "final" /\ observed' = TRUE
       ELSE pc' = "recv" /\ observed' = observed
    /\ UNCHANGED <<shutdown, received, cur, cursor, request_index, jobs,
                   wstate, wjob, lock, respChan, batches, next_batch_id, out,
                   invoked, callIn, signal_calls, callOut, dispatched_at_signal>>

\* receive_message returns Err(UnexpectedEof): break.
ReceiveEof ==
    /\ pc = "recv"
    /\ pc' = "final"
    /\ UNCHANGED <<shutdown, observed, received, cur, cursor, request_index,
                   jobs, wstate, wjob, lock, respChan, batches, next_batch_id,
                   out, invoked, callIn, signal_calls, callOut, dispatched_at_signal>>

\* receive_message returns another error: an internal error response with a
\* null id is written and the loop continues.
ReceiveError ==
    /\ pc = "recv"
    /\ Len(received) < MaxMsgs
    /\ received' = Append(received, IoError)
    /\ out' = Append(out, WriteSingle(
           ResponseError("null", internal_error("Internal error"),
                         <<Len(received) + 1, 0>>), NoBatch))
    /\ pc' = "top"
    /\ UNCHANGED <<shutdown, observed, cur, cursor, request_index, jobs,
                   wstate, wjob, lock, respChan, batches, next_batch_id,
                   invoked, callIn, signal_calls, callOut, dispatched_at_signal>>

\* receive_message returns a string: parse it, classify it and dispatch it
\* (the match on message in run).  A notification and the elements of a batch
\* are run by Notify and BatchStep, because they can wait for the handlers
\* mutex.
Receive(in) ==
    /\ pc = "recv"
    /\ Len(received) < MaxMsgs
    /\ Cardinality(Dispatched) + RequestsIn(in) <= JobBudget(in)
    /\ received' = Append(received, in)
    /\ LET msgno == Len(received) + 1
           m == FromJson(in)
       IN  IF in.shape = "garbage"
           THEN /\ out' = Append(out, WriteSingle(
                       ResponseError("null", parse_error("Parse error"),
                                     <<msgno, 0>>), NoBatch))
                /\ pc' = "top"
                /\ UNCHANGED <<cur, cursor, request_index, jobs, batches,
                               next_batch_id>>
           ELSE IF m.kind = "Invalid"
           THEN /\ out' = Append(out, WriteSingle(
                       ResponseError(ExtractId(in),
                                     invalid_request("Invalid Request"),
                                     <<msgno, 0>>), NoBatch))
                /\ pc' = "top"
                /\ UNCHANGED <<cur, cursor, request_index, jobs, batches,
                               next_batch_id>>
           ELSE IF m.kind = "Request"
           THEN /\ jobs' = Append(jobs, Job(m.msgs[1], msgno, NoBatch, NoBatch))
                /\ pc' = "drain"
                /\ UNCHANGED <<cur, cursor, request_index, batches,
                               next_batch_id, out>>
           ELSE IF m.kind = "Notification"
           THEN /\ cur' = [msgs |-> m.msgs, batch_id |-> NoBatch]
                /\ pc' = "notify"
                /\ UNCHANGED <<cursor, request_index, jobs, batches,
                               next_batch_id, out>>
           ELSE IF m.kind = "Batch"
           THEN /\ next_batch_id' = next_batch_id + 1
                /\ IF RequestCount(m.msgs) > 0
                   THEN /\ batches' =
                              (next_batch_id :> BatchContext(RequestCount(m.msgs)))
                              @@ batches
                        /\ cur' = [msgs |-> m.msgs, batch_id |-> next_batch_id]
                        /\ cursor' = 1
                        /\ request_index' = 0
                        /\ pc' = "batch"
                   ELSE /\ pc' = "drain"
                        /\ UNCHANGED <<cur, cursor, request_index, batches>>
                /\ UNCHANGED <<jobs, out>>
           ELSE /\ pc' = "drain"
                /\ UNCHANGED <<cur, cursor, request_index, jobs, batches,
                               next_batch_id, out>>
    /\ UNCHANGED <<shutdown, observed, wstate, wjob, lock, respChan, invoked,
                   callIn, signal_calls, callOut, dispatched_at_signal>>

\* process_notification, once handlers.lock() has returned: "called" when
\* handler.call ran and returned, "panic" when it panicked, "skipped" when no
\* handler is registered or the mutex is poisoned.
ProcessNotification(msg, poisoned) ==
    IF poisoned \/ msg.method \notin Registered
    THEN "skipped"
    ELSE IF HandlerCall(msg.method, ParamsOrNull(msg.params)).tag = "panic"
         THEN "panic"
         ELSE "called"

\* Notify with the bug of answering the notification like a request.
NotifyReplies ==
    /\ pc = "notify"
    /\ lock.holder = 0
    /\ LET msg == cur.msgs[1]
           r == ProcessNotification(msg, lock.poisoned)
       IN  /\ invoked' = IF r = "skipped" THEN invoked
                         ELSE invoked \cup {<<Len(received), msg.pos>>}
           /\ pc' = IF r = "panic" THEN "panicked" ELSE "drain"
           /\ lock' = IF r = "panic" THEN [lock EXCEPT !.poisoned = TRUE] ELSE lock
           /\ out' = IF r = "called"
                     THEN Append(out, WriteSingle(
                              OutcomeResponse(
                                  HandlerCall(msg.method, ParamsOrNull(msg.params)),
                                  "null", <<Len(received), msg.pos>>), NoBatch))
                     ELSE out
    /\ UNCHANGED <<shutdown, observed, received, cur, cursor, request_index,
                   jobs, wstate, wjob, respChan, batches, next_batch_id,
                   callIn, signal_calls, callOut, dispatched_at_signal>>

\* The Message::Notification arm of run.  handlers.lock() blocks while a
\* worker holds the mutex; the handler then runs on this thread.  A panic of
\* the handler unwinds run and poisons the mutex.
Notify ==
    /\ pc = "notify"
    /\ lock.holder = 0
    /\ LET msg == cur.msgs[1]
           r == ProcessNotification(msg, lock.poisoned)
       IN  /\ invoked' = IF r = "skipped" THEN invoked
                         ELSE invoked \cup {<<Len(received), msg.pos>>}
           /\ pc' = IF r = "panic" THEN "panicked" ELSE "drain"
           /\ lock' = IF r = "panic" THEN [lock EXCEPT !.poisoned = TRUE] ELSE lock
    /\ UNCHANGED <<shutdown, observed, received, cur, cursor, request_index,
                   jobs, wstate, wjob, respChan, batches, next_batch_id, out,
                   callIn, signal_calls, callOut, dispatched_at_signal>>

\* One iteration of the loop of process_batch.
BatchStep ==
    /\ pc = "batch"
    /\ LET msg == cur.msgs[cursor]
           msgno == Len(received)
           next == IF cursor = Len(cur.msgs) THEN "drain" ELSE "batch"
       IN  IF msg.kind = "Request"
           THEN /\ jobs' = Append(jobs, Job(msg, msgno, cur.batch_id, request_index))
                /\ request_index' = request_index + 1
                /\ pc' = next
                /\ UNCHANGED <<respChan, invoked, lock>>
           ELSE IF msg.kind = "Notification"
           THEN /\ lock.holder = 0
                /\ LET r == ProcessNotification(msg, lock.poisoned)
                   IN  /\ invoked' = IF r = "skipped" THEN invoked
                                     ELSE invoked \cup {<<msgno, msg.pos>>}
                       /\ pc' = IF r = "panic" THEN "panicked" ELSE next
                       /\ lock' = IF r = "panic"
                                  THEN [lock EXCEPT !.poisoned = TRUE] ELSE lock
                /\ UNCHANGED <<jobs, request_index, respChan>>
           ELSE /\ respChan' = Append(respChan,
                       ResponseData(AsResponse(msg, msgno), cur.batch_id,
                                    request_index))
                /\ request_index' = request_index + 1
                /\ pc' = next
                /\ UNCHANGED <<jobs, invoked, lock>>
    /\ cursor' = cursor + 1
    /\ UNCHANGED <<shutdown, observed, received, cur, wstate, wjob, batches,
                   next_batch_id, out, callIn, signal_calls, callOut, dispatched_at_signal>>

\* DrainOne with the bug of a missing batches.remove.
DrainOneNoRemove(rd, bs, o) ==
    IF /\ rd.batch_id # NoBatch
       /\ rd.batch_index # NoBatch
       /\ rd.batch_id \in DOMAIN bs
       /\ rd.batch_index < Len(bs[rd.batch_id].responses)
    THEN LET batch == bs[rd.batch_id]
             responses == StoreSlot(batch.responses, rd.batch_index, rd.response)
         IN  [batches |-> [bs EXCEPT ![rd.batch_id].responses = responses,
                                     ![rd.batch_id].order =
                                         Append(batch.order, rd.batch_index)],
              out |-> IF Completed(responses) = batch.expected_count
                         /\ Flatten(responses) # <<>>
                      THEN Append(o, WriteArray(Flatten(responses), rd.batch_id,
                                     Append(batch.order, rd.batch_index)))
                      ELSE o]
    ELSE [batches |-> bs, out |-> Append(o, WriteSingle(rd.response, rd.batch_id))]

\* DrainOne with the bug of storing a tagged response in the oldest live
\* context, whatever batch id it carries.
DrainOneOldestBatch(rd, bs, o) ==
    IF /\ rd.batch_id # NoBatch
       /\ rd.batch_index # NoBatch
       /\ DOMAIN bs # {}
       /\ LET b == CHOOSE x \in DOMAIN bs : \A y \in DOMAIN bs : x <= y
          IN  rd.batch_index < Len(bs[b].responses)
    THEN LET b == CHOOSE x \in DOMAIN bs : \A y \in DOMAIN bs : x <= y
             batch == bs[b]
             responses == StoreSlot(batch.responses, rd.batch_index, rd.response)
         IN  IF Completed(responses) = batch.expected_count
             THEN [batches |-> Remove(bs, b),
                   out |-> IF Flatten(responses) # <<>>
                           THEN Append(o, WriteArray(Flatten(responses), b,
                                          Append(batch.order, rd.batch_index)))
                           ELSE o]
             ELSE [batches |-> [bs EXCEPT ![b].responses = responses,
                                          ![b].order =
                                              Append(batch.order, rd.batch_index)],
                   out |-> o]
    ELSE [batches |-> bs, out |-> Append(o, WriteSingle(rd.response, rd.batch_id))]

\* The body of the drain loop of run for one ResponseData: (batches', out').
DrainOne(rd, bs, o) ==
    IF /\ rd.batch_id # NoBatch
       /\ rd.batch_index # NoBatch
       /\ rd.batch_id \in DOMAIN bs
       /\ rd.batch_index < Len(bs[rd.batch_id].responses)
    THEN LET batch == bs[rd.batch_id]
             responses == StoreSlot(batch.responses, rd.batch_index, rd.response)
         IN  IF Completed(responses) = batch.expected_count
             THEN [batches |-> Remove(bs, rd.batch_id),
                   out |-> IF Flatten(responses) # <<>>
                           THEN Append(o, WriteArray(Flatten(responses), rd.batch_id,
                                          Append(batch.order, rd.batch_index)))
                           ELSE o]
             ELSE [batches |-> [bs EXCEPT ![rd.batch_id].responses = responses,
                                          ![rd.batch_id].order =
                                              Append(batch.order, rd.batch_index)],
                   out |-> o]
    ELSE [batches |-> bs, out |-> Append(o, WriteSingle(rd.response, rd.batch_id))]

\* recv_timeout returns Ok(response_data) in the drain loop inside the loop.
DrainRecv ==
    /\ pc = "drain"
    /\ respChan # <<>>
    /\ LET d == DrainOne(Head(respChan), batches, out)
       IN  batches' = d.batches /\ out' = d.out
    /\ respChan' = Tail(respChan)
    /\ UNCHANGED <<pc, shutdown, observed, received, cur, cursor, request_index,
                   jobs, wstate, wjob, lock, next_batch_id, invoked, callIn, signal_calls,
                   callOut, dispatched_at_signal>>

\* DrainTimeout with the bug of going back to receive_message without the
\* shutdown check.
DrainTimeoutSkipsCheck ==
    /\ pc = "drain"
    /\ respChan = <<>>
    /\ pc' = "recv"
    /\ UNCHANGED <<shutdown, observed, received, cur, cursor, request_index,
                   jobs, wstate, wjob, lock, respChan, batches, next_batch_id,
                   out, invoked, callIn, signal_calls, callOut, dispatched_at_signal>>

\* recv_timeout returns Err(Timeout): nothing arrived for 100 ms.
DrainTimeout ==
    /\ pc = "drain"
    /\ respChan = <<>>
    /\ pc' = "top"
    /\ UNCHANGED <<shutdown, observed, received, cur, cursor, request_index,
                   jobs, wstate, wjob, lock, respChan, batches, next_batch_id,
                   out, invoked, callIn, signal_calls, callOut, dispatched_at_signal>>

\* The body of the loop after the main loop: every ResponseData is written
\* as one message.
FinalOne(rd, o) == Append(o, WriteSingle(rd.response, rd.batch_id))

FinalRecv ==
    /\ pc = "final"
    /\ respChan # <<>>
    /\ out' = FinalOne(Head(respChan), out)
    /\ respChan' = Tail(respChan)
    /\ UNCHANGED <<pc, shutdown, observed, received, cur, cursor, request_index,
                   jobs, wstate, wjob, lock, batches, next_batch_id, invoked,
                   callIn, signal_calls, callOut, dispatched_at_signal>>

\* FinalTimeout with the bug of joining the pool before run returns: every
\* job has been taken and no worker is busy.
FinalTimeoutJoins ==
    /\ pc = "final"
    /\ respChan = <<>>
    /\ jobs = <<>>
    /\ \A w \in 1..PoolSize : wstate[w] \in {"idle", "dead"}
    /\ pc' = "done"
    /\ UNCHANGED <<shutdown, observed, received, cur, cursor, request_index,
                   jobs, wstate, wjob, lock, respChan, batches, next_batch_id,
                   out, invoked, callIn, signal_calls, callOut, dispatched_at_signal>>

\* recv_timeout times out after the main loop: run returns Ok(()).
FinalTimeout ==
    /\ pc = "final"
    /\ respChan = <<>>
    /\ pc' = "done"
    /\ UNCHANGED <<shutdown, observed, received, cur, cursor, request_index,
                   jobs, wstate, wjob, lock, respChan, batches, next_batch_id,
                   out, invoked, callIn, signal_calls, callOut, dispatched_at_signal>>

\* ---------------------------------------------------------------- workers

\* WorkerTake with the bug of starting a job on a worker that is not free.
WorkerTakeWhileBusy(w) ==
    /\ wstate[w] # "dead"
    /\ jobs # <<>>
    /\ wjob' = [wjob EXCEPT ![w] = Head(jobs)]
    /\ jobs' = Tail(jobs)
    /\ wstate' = [wstate EXCEPT ![w] = "wait"]
    /\ UNCHANGED <<pc, shutdown, observed, received, cur, cursor, request_index,
                   lock, respChan, batches, next_batch_id, out, invoked, callIn, signal_calls,
                   callOut, dispatched_at_signal>>

\* Worker::spawn: rx.recv() hands the oldest job to a worker that is free.
\* The workers run the same loop, so which free worker gets the job makes no
\* difference: the lowest-numbered one takes it.
WorkerTake(w) ==
    /\ wstate[w] = "idle"
    /\ \A v \in Workers : v < w => wstate[v] # "idle"
    /\ jobs # <<>>
    /\ wjob' = [wjob EXCEPT ![w] = Head(jobs)]
    /\ jobs' = Tail(jobs)
    /\ wstate' = [wstate EXCEPT ![w] = "wait"]
    /\ UNCHANGED <<pc, shutdown, observed, received, cur, cursor, request_index,
                   lock, respChan, batches, next_batch_id, out, invoked, callIn, signal_calls,
                   callOut, dispatched_at_signal>>

\* process_request_with_batch up to handler.call: handlers.lock() returns.
\* A poisoned mutex and an unknown method give their response at once; else
\* the handler starts, under the mutex.
WorkerLock(w) ==
    /\ wstate[w] = "wait"
    /\ lock.holder = 0
    /\ LET j == wjob[w]
       IN  IF lock.poisoned
           THEN /\ wjob' = [wjob EXCEPT ![w].response =
                       ResponseError(j.id, internal_error("Internal server error"),
                                     j.src)]
                /\ wstate' = [wstate EXCEPT ![w] = "send"]
                /\ UNCHANGED <<lock, invoked>>
           ELSE IF j.method \notin Registered
           THEN /\ wjob' = [wjob EXCEPT ![w].response =
                       UnknownMethod(j.id, j.method, j.src)]
                /\ wstate' = [wstate EXCEPT ![w] = "send"]
                /\ UNCHANGED <<lock, invoked>>
           ELSE /\ lock' = [lock EXCEPT !.holder = w]
                /\ wstate' = [wstate EXCEPT ![w] = "running"]
                /\ invoked' = invoked \cup {j.src}
                /\ UNCHANGED wjob
    /\ UNCHANGED <<pc, shutdown, observed, received, cur, cursor, request_index,
                   jobs, respChan, batches, next_batch_id, out, callIn, signal_calls, callOut, dispatched_at_signal>>

\* handler.call returns (or panics), after any time: the response is built
\* and the mutex guard is dropped.  A panic kills the worker thread and
\* poisons the mutex.
WorkerReturn(w) ==
    /\ wstate[w] = "running"
    /\ LET j == wjob[w]
           o == HandlerCall(j.method, ParamsOrNull(j.params))
       IN  IF o.tag = "panic"
           THEN /\ wstate' = [wstate EXCEPT ![w] = "dead"]
                /\ wjob' = [wjob EXCEPT ![w] = NoJob]
                /\ lock' = [holder |-> 0, poisoned |-> TRUE]
           ELSE /\ wstate' = [wstate EXCEPT ![w] = "send"]
                /\ wjob' = [wjob EXCEPT ![w].response = OutcomeResponse(o, j.id, j.src)]
                /\ lock' = [lock EXCEPT !.holder = 0]
    /\ UNCHANGED <<pc, shutdown, observed, received, cur, cursor, request_index,
                   jobs, respChan, batches, next_batch_id, out, invoked, callIn, signal_calls,
                   callOut, dispatched_at_signal>>

\* sender.send(ResponseData { .. }); it fails once run has returned and the
\* receiver is gone.
WorkerSend(w) ==
    /\ wstate[w] = "send"
    /\ respChan' = IF pc \in {"done", "panicked"}
                   THEN respChan
                   ELSE Append(respChan,
                            ResponseData(wjob[w].response, wjob[w].batch_id,
                                         wjob[w].batch_index))
    /\ wstate' = [wstate EXCEPT ![w] = "idle"]
    /\ wjob' = [wjob EXCEPT ![w] = NoJob]
    /\ UNCHANGED <<pc, shutdown, observed, received, cur, cursor, request_index,
                   jobs, lock, batches, next_batch_id, out, invoked, callIn, signal_calls,
                   callOut, dispatched_at_signal>>

\* One JsonRpc::call(json_str).
Call ==
    /\ pc = "call"
    /\ callOut' = JsonRpcCall(callIn)
    /\ pc' = "called"
    /\ UNCHANGED <<shutdown, observed, received, cur, cursor, request_index,
                   jobs, wstate, wjob, lock, respChan, batches, next_batch_id,
                   out, invoked, callIn, signal_calls, dispatched_at_signal>>

Next ==
    \/ Call
    \/ Signal
    \/ LoopTop
    \/ ReceiveEof
    \/ ReceiveError
    \/ \E in \in ServerInputs : Receive(in)
    \/ Notify
    \/ BatchStep
    \/ DrainRecv
    \/ DrainTimeout
    \/ FinalRecv
    \/ FinalTimeout
    \/ \E w \in Workers : WorkerTake(w)
    \/ \E w \in Workers : WorkerLock(w)
    \/ \E w \in Workers : WorkerReturn(w)
    \/ \E w \in Workers : WorkerSend(w)

Spec == Init /\ [][Next]_vars

Init2 == Init

Next2 ==
    \/ Call
    \/ Signal
    \/ LoopTop
    \/ ReceiveEof
    \/ \E in \in ServerInputs2 : Receive(in)
    \/ BatchStep
    \/ DrainRecv
    \/ DrainTimeout
    \/ FinalRecv
    \/ FinalTimeout
    \/ \E w \in Workers : WorkerTake(w)
    \/ \E w \in Workers : WorkerLock(w)
    \/ \E w \in Workers : WorkerReturn(w)
    \/ \E w \in Workers : WorkerSend(w)

Spec2 ==
    Init2 /\ [][Next2]_vars /\ WF_vars(FinalRecv) /\ WF_vars(FinalTimeout)

\* ------------------------------------------- from_json, to_json and serve

\* serde_json::to_value of an Error: the error a peer sent is written as it
\* was read; any other error is the object of an engine-built error.
ErrorJson(err) ==
    IF err = NoError
    THEN ABSENT
    ELSE IF err = PeerError THEN "errobj" ELSE "engine_error"

\* serde_json::to_value of a Request, Notification or Response: the members
\* of the struct, an Option that is None skipped (skip_serializing_if).
ToJsonOne(m) ==
    CASE m.kind = "Request" ->
            Obj(m.jsonrpc, m.id, m.method, m.params, ABSENT, ABSENT)
      [] m.kind = "Notification" ->
            Obj(m.jsonrpc, ABSENT, m.method, m.params, ABSENT, ABSENT)
      [] OTHER ->
            Obj(m.jsonrpc, m.id, ABSENT, ABSENT, ErrorJson(m.error), m.result)

\* Message::to_json on the value of FromJson: a batch gives the array of its
\* messages' JSON.
ToJson(m) ==
    IF m.kind = "Batch"
    THEN Array([i \in 1..Len(m.msgs) |-> ToJsonOne(m.msgs[i])])
    ELSE Single(ToJsonOne(m.msgs[1]))

\* The Request arm of process_message and of serve.
MethodsRequest(msg) ==
    IF msg.method \in Registered
    THEN LET o == HandlerCall(msg.method, ParamsOrNull(msg.params))
         IN  IF o.tag = "panic"
             THEN Panicked
             ELSE WriteSingle(OutcomeResponse(o, msg.id, <<1, 0>>), NoBatch)
    ELSE WriteSingle(UnknownMethod(msg.id, msg.method, <<1, 0>>), NoBatch)

\* The Notification arm of process_message and of serve.
MethodsNotification(msg) ==
    IF msg.method \in Registered
          /\ HandlerCall(msg.method, ParamsOrNull(msg.params)).tag = "panic"
    THEN Panicked
    ELSE NoOutput

\* The handlers one message makes process_message or serve call: the one of
\* a single Request or Notification with a registered method.
MethodsInvoked(in) ==
    IF in.shape = "garbage"
    THEN {}
    ELSE LET m == FromJson(in)
         IN  IF m.kind \in {"Request", "Notification"}
                   /\ m.msgs[1].method \in Registered
             THEN {<<1, 0>>}
             ELSE {}

\* ProcessMessage with the bug of answering an empty array as a batch.
ProcessMessageEmptyBatch(in) ==
    IF in.shape = "garbage"
    THEN WriteSingle(ResponseError("null", parse_error("Parse error"), <<1, 0>>),
                     NoBatch)
    ELSE LET m == FromJsonEmptyBatch(in)
         IN  CASE m.kind = "Invalid" ->
                    WriteSingle(ResponseError(CallRequestId(in),
                                    invalid_request("Invalid Request"), <<1, 0>>),
                                NoBatch)
               [] m.kind = "Request" -> MethodsRequest(m.msgs[1])
               [] m.kind = "Notification" -> MethodsNotification(m.msgs[1])
               [] m.kind = "Batch" ->
                    WriteSingle(ResponseError(CallRequestId(in),
                                    internal_error("Batch requests not yet supported"),
                                    <<1, 0>>),
                                NoBatch)
               [] OTHER -> NoOutput

\* Methods::process_message: the Option<String> it returns.
ProcessMessage(in) ==
    IF in.shape = "garbage"
    THEN WriteSingle(ResponseError("null", parse_error("Parse error"), <<1, 0>>),
                     NoBatch)
    ELSE LET m == FromJson(in)
         IN  CASE m.kind = "Invalid" ->
                    WriteSingle(ResponseError(CallRequestId(in),
                                    invalid_request("Invalid Request"), <<1, 0>>),
                                NoBatch)
               [] m.kind = "Request" -> MethodsRequest(m.msgs[1])
               [] m.kind = "Notification" -> MethodsNotification(m.msgs[1])
               [] m.kind = "Batch" ->
                    WriteSingle(ResponseError(CallRequestId(in),
                                    internal_error("Batch requests not yet supported"),
                                    <<1, 0>>),
                                NoBatch)
               [] OTHER -> NoOutput

\* One iteration of the loop of serve on a delivered string: what it sends.
ServeMessage(in) ==
    IF in.shape = "garbage"
    THEN WriteSingle(ResponseError("null", parse_error("Parse error"), <<1, 0>>),
                     NoBatch)
    ELSE LET m == FromJson(in)
         IN  CASE m.kind = "Invalid" ->
                    WriteSingle(ResponseError(CallRequestId(in),
                                    invalid_request("Invalid Request"), <<1, 0>>),
                                NoBatch)
               [] m.kind = "Request" -> MethodsRequest(m.msgs[1])
               [] m.kind = "Notification" -> MethodsNotification(m.msgs[1])
               [] m.kind = "Batch" ->
                    WriteSingle(ResponseError(CallRequestId(in),
                                    internal_error("Batch requests not yet supported"),
                                    <<1, 0>>),
                                NoBatch)
               [] OTHER -> NoOutput

\* Objects with every member present or missing, null among the values of
\* params and result.
RoundTripElems ==
    { Obj("2.0", i, m, p, e, r) :
        i \in {ABSENT, "null", "n1", "sa"},
        m \in {ABSENT, "hello"},
        p \in {ABSENT, "null", "world"},
        e \in {ABSENT, "errobj"},
        r \in {ABSENT, "null", "x"} }

\* Elements of arrays that fail classification in further ways.
FailingElems ==
    { Obj("2.0", "true", ABSENT, ABSENT, ABSENT, ABSENT),
      Obj("2.0", "true", "hello", "world", ABSENT, ABSENT),
      Obj("2.0", "n1", ABSENT, ABSENT, ABSENT, "x"),
      Obj("2.0", "sa", "nonstr", ABSENT, ABSENT, ABSENT),
      Obj("2.0", "null", ABSENT, ABSENT, "str", ABSENT) }

\* The JSON values Message::from_json is tried on.
ParseInputs ==
    { Array(<<>>) }
    \cup { Single(e) : e \in CallElems \cup RoundTripElems }
    \cup { Array(<<e>>) : e \in BatchElems \cup FailingElems }
    \cup { Array(<<e, f>>) : e \in BatchElems \cup FailingElems,
                              f \in BatchElems \cup FailingElems }

\* The outcome of from_json followed by to_json: the message, and its JSON
\* when from_json returned Ok.
Reparsed(in) ==
    LET m == FromJson(in)
    IN  [kind |-> IF m.kind = "Invalid" THEN "err" ELSE "json",
         resps |-> <<>>, tag |-> NoBatch, order |-> <<>>,
         parsed |-> m,
         json |-> IF m.kind = "Invalid" THEN NoInput ELSE ToJson(m)]

Init3 ==
    /\ \/ pc = "parse" /\ callIn \in ParseInputs
       \/ pc \in {"process", "serve"} /\ callIn \in CallInputs
       \/ pc = "flag" /\ callIn = NoInput
    /\ shutdown = FALSE
    /\ observed = FALSE
    /\ received = <<>>
    /\ cur = [msgs |-> <<>>, batch_id |-> NoBatch]
    /\ cursor = 0
    /\ request_index = 0
    /\ jobs = <<>>
    /\ wstate = [w \in Workers |-> "idle"]
    /\ wjob = [w \in Workers |-> NoJob]
    /\ lock = [holder |-> 0, poisoned |-> FALSE]
    /\ respChan = <<>>
    /\ batches = <<>>
    /\ next_batch_id = 0
    /\ out = <<>>
    /\ invoked = {}
    /\ dispatched_at_signal = {}
    /\ callOut = NoOutput
    /\ signal_calls = 0

\* Message::from_json(x) and then to_json on its value.
FromJsonToJson ==
    /\ pc = "parse"
    /\ callOut' = Reparsed(callIn)
    /\ pc' = "parsed"
    /\ UNCHANGED <<shutdown, observed, received, cur, cursor, request_index,
                   jobs, wstate, wjob, lock, respChan, batches, next_batch_id,
                   out, invoked, callIn, signal_calls, dispatched_at_signal>>

\* methods.process_message(json_str).await
Process ==
    /\ pc = "process"
    /\ callOut' = ProcessMessage(callIn)
    /\ invoked' = MethodsInvoked(callIn)
    /\ pc' = "processed"
    /\ UNCHANGED <<shutdown, observed, received, cur, cursor, request_index,
                   jobs, wstate, wjob, lock, respChan, batches, next_batch_id,
                   out, callIn, signal_calls, dispatched_at_signal>>

\* One iteration of serve: receive_message gave the string callIn.
Serve ==
    /\ pc = "serve"
    /\ callOut' = ServeMessage(callIn)
    /\ invoked' = MethodsInvoked(callIn)
    /\ pc' = "served"
    /\ UNCHANGED <<shutdown, observed, received, cur, cursor, request_index,
                   jobs, wstate, wjob, lock, respChan, batches, next_batch_id,
                   out, callIn, signal_calls, dispatched_at_signal>>

Next3 ==
    \/ Signal
    \/ FromJsonToJson
    \/ Process
    \/ Serve

Spec3 == Init3 /\ [][Next3]_vars

\* ------------------------------------------------------------------ claims

\* The responses written for the element at place src.
WritesOf(src) ==
    UNION {{<<i, n>> : n \in {m \in 1..Len(out[i].resps) :
                                 out[i].resps[m].src = src}} :
           i \in 1..Len(out)}

\* The element at place src is a Request.
IsRequestAt(src) == src[1] \in 1..Len(received) /\ src \in RequestsOf(src[1])

Written(src) == WritesOf(src) # {}

\* The Request and Response messages of the k-th delivered string, a batch:
\* the elements that take a slot, in array order.
SlotsOf(k) ==
    SelectSeq(FromJson(received[k]).msgs,
              LAMBDA m : m.kind \in {"Request", "Response"})

\* The delivered string an array written by run belongs to.
BatchOf(o) == o.resps[1].src[1]

SingleRequests == {k \in 1..Len(received) : KindOf(received[k]) = "Request"}

AdmittedBatches ==
    {k \in 1..Len(received) :
        KindOf(received[k]) = "Batch" /\ SlotsOf(k) # <<>>}

\* C1: every array run writes for a batch with at least one Request lists the
\* responses in input order: entry n answers the n-th element of the input
\* array that is not a notification, whatever the order of completion.
C1_BatchOrder ==
    \A i \in 1..Len(out) :
        (out[i].kind = "array"
         /\ \E n \in 1..Len(SlotsOf(BatchOf(out[i]))) :
               SlotsOf(BatchOf(out[i]))[n].kind = "Request")
        => LET k == BatchOf(out[i])
               slots == SlotsOf(k)
           IN  /\ Len(out[i].resps) = Len(slots)
               /\ \A n \in 1..Len(slots) :
                     /\ out[i].resps[n].src = <<k, slots[n].pos>>
                     /\ out[i].resps[n].id = slots[n].id

\* C1 witness: an array has been written whose second Request completed
\* before its first.
C1_Witness ==
    \E i \in 1..Len(out) :
        /\ out[i].kind = "array"
        /\ \E a, b \in 1..Len(out[i].order) :
              /\ a < b
              /\ out[i].order[a] > out[i].order[b]
              /\ IsRequestAt(out[i].resps[out[i].order[a] + 1].src)
              /\ IsRequestAt(out[i].resps[out[i].order[b] + 1].src)

\* C2: a response tagged with a batch id is never written as a message of
\* its own, and no array has fewer entries than its batch expects.
C2_NoPartialBatch ==
    \A i \in 1..Len(out) :
        /\ out[i].kind = "single" => out[i].tag = NoBatch
        /\ out[i].kind = "array" =>
              Len(out[i].resps) = Len(SlotsOf(BatchOf(out[i])))

\* C3: when run has returned, the response of every request that was in
\* flight when the shutdown signal was set has been written.  (A request
\* dispatched before signal() and not written at the end was in flight at
\* signal().)
C3_ShutdownDrains ==
    pc = "done" => \A src \in dispatched_at_signal : Written(src)

\* C4: a single Request gets exactly one response: never two, and one by the
\* time run has returned.
C4_ExactlyOne ==
    \A k \in SingleRequests :
        /\ Cardinality(WritesOf(<<k, 0>>)) <= 1
        /\ pc = "done" => Cardinality(WritesOf(<<k, 0>>)) = 1

\* C5: the response to a single Request carries the id of the Request, from
\* run and from call, for every handler outcome.
C5_IdEcho ==
    /\ \A k \in SingleRequests :
          \A w \in WritesOf(<<k, 0>>) :
              out[w[1]].resps[w[2]].id = received[k].elems[1].id
    /\ (pc = "called" /\ KindOf(callIn) = "Request" /\ callOut.kind = "single")
          => callOut.resps[1].id = callIn.elems[1].id

\* C5 witness: run has written an error response to a single Request whose id
\* is a string, and it carries that id.
C5_Witness ==
    \E k \in SingleRequests :
        /\ received[k].elems[1].id = "sa"
        /\ \E w \in WritesOf(<<k, 0>>) :
              /\ HasError(out[w[1]].resps[w[2]])
              /\ out[w[1]].resps[w[2]].id = "sa"

\* C6: a well-formed Notification never makes run write anything nor call
\* return a string.
C6_NotificationSilent ==
    /\ \A i \in 1..Len(out) :
          \A n \in 1..Len(out[i].resps) :
              KindOf(received[out[i].resps[n].src[1]]) # "Notification"
    /\ (\A k \in 1..Len(received) : KindOf(received[k]) = "Notification")
          => out = <<>> /\ respChan = <<>> /\ jobs = <<>>
    /\ (pc = "called" /\ KindOf(callIn) = "Notification")
          => callOut.kind \notin {"single", "array"}

\* C6 witness: run has returned after a notification whose handler was
\* called, and nothing was written.
C6_Witness ==
    /\ pc = "done"
    /\ out = <<>>
    /\ \E k \in 1..Len(received) :
          KindOf(received[k]) = "Notification" /\ <<k, 0>> \in invoked

\* C7: when run has returned after observing the shutdown signal, the
\* complete array of every admitted batch has been written.
C7_BatchFinishes ==
    (pc = "done" /\ observed)
    => \A k \in AdmittedBatches :
          \E i \in 1..Len(out) :
              /\ out[i].kind = "array"
              /\ BatchOf(out[i]) = k
              /\ Len(out[i].resps) = Len(SlotsOf(k))

\* The thread of run is in handlers.lock() for a notification.
MainWantsLock ==
    \/ pc = "notify"
    \/ pc = "batch" /\ cur.msgs[cursor].kind = "Notification"

\* C8: the coordinating loop is never kept from dispatching a message by a
\* handler that runs in a worker.
C8_LoopNotStalled == ~(MainWantsLock /\ lock.holder # 0)

\* C9: every Response written, alone or in an array, and every Response call
\* returns has exactly one of result and error.
C9_ResultXorError ==
    /\ \A i \in 1..Len(out) :
          \A n \in 1..Len(out[i].resps) :
              HasResult(out[i].resps[n]) # HasError(out[i].resps[n])
    /\ \A n \in 1..Len(callOut.resps) :
          HasResult(callOut.resps[n]) # HasError(callOut.resps[n])

\* C10: once the loop has read the shutdown flag as set, receive_message is
\* never called again and no message is admitted.
C10_NoReceiveAfterObserved ==
    [][observed => (received' = received /\ pc' # "recv")]_vars

\* C10 witness: run has returned on the shutdown signal while the transport
\* still had messages to deliver.
C10_Witness == observed /\ pc = "done" /\ Len(received) < MaxMsgs

\* The positions of an input array that take an entry of the reply: every
\* element but the notifications, well-formed (N) or broken and dropped (D),
\* which are the objects with a method key and no id key.
NoIdWithMethod(e) == e.t = "obj" /\ ~Has(e, "id") /\ Has(e, "method")

EntryPositions(es) == {p \in 1..Len(es) : ~NoIdWithMethod(es[p])}

\* C11: the array written (by run) or returned (by call) for a batch has one
\* entry for each element that is not a notification, R + M in all, each for
\* a different one of these elements; call returns that array whenever
\* R + M > 0 and no handler panics.
C11_ArrayEntries ==
    /\ \A i \in 1..Len(out) :
          out[i].kind = "array" =>
             LET es == received[BatchOf(out[i])].elems
             IN  /\ Len(out[i].resps) = Cardinality(EntryPositions(es))
                 /\ {out[i].resps[n].src[2] : n \in 1..Len(out[i].resps)}
                       = EntryPositions(es)
    /\ (pc = "called" /\ callIn.shape = "array"
           /\ EntryPositions(callIn.elems) # {} /\ callOut # Panicked)
          => /\ callOut.kind = "array"
             /\ Len(callOut.resps) = Cardinality(EntryPositions(callIn.elems))

\* C11 witness: run has written the array of a batch that holds Requests, a
\* malformed element answered with an error and a dropped broken notification.
C11_Witness ==
    \E i \in 1..Len(out) :
        /\ out[i].kind = "array"
        /\ Len(out[i].resps) = 3
        /\ Len(received[BatchOf(out[i])].elems) = 4
        /\ \E n \in 1..3 : out[i].resps[n].error.code = -32600

\* A well-formed Notification: an object without an id key whose jsonrpc is
\* "2.0" and whose method is a string.
WellFormedNotification(e) ==
    /\ e.t = "obj"
    /\ ~Has(e, "id")
    /\ e.jsonrpc = "2.0"
    /\ e.method \notin {ABSENT, "nonstr"}

\* A batch whose elements are all well-formed Notifications.
PureNotificationBatch(in) ==
    /\ in.shape = "array"
    /\ Len(in.elems) > 0
    /\ \A p \in 1..Len(in.elems) : WellFormedNotification(in.elems[p])

\* C12: the step of run that receives a batch of well-formed Notifications
\* only writes nothing, creates no BatchContext and hands nothing to the
\* thread pool or the response channel, and nothing written later is for an
\* element of that batch.
C12_PureNotificationBatch ==
    /\ [][(Len(received') = Len(received) + 1
            /\ PureNotificationBatch(received'[Len(received')]))
           => (out' = out /\ batches' = batches /\ jobs' = jobs
               /\ respChan' = respChan /\ pc' = "drain")]_vars
    /\ [](\A i \in 1..Len(out) : \A n \in 1..Len(out[i].resps) :
             ~PureNotificationBatch(received[out[i].resps[n].src[1]]))

\* C12 witness: run has returned after a batch of Notifications only, with
\* nothing written and no BatchContext left.
C12_Witness ==
    /\ pc = "done"
    /\ out = <<>>
    /\ batches = <<>>
    /\ \E k \in 1..Len(received) : PureNotificationBatch(received[k])

\* C13: call returns None for an input made of notifications only, a single
\* Notification as well as a batch of Notifications.
C13_CallNotificationsNone ==
    (/\ pc = "called"
     /\ \/ callIn.shape = "single" /\ WellFormedNotification(callIn.elems[1])
        \/ PureNotificationBatch(callIn))
    => callOut.kind \notin {"single", "array"}

\* The element at place <<k, p>> of the delivered strings (p = 0: the single
\* message itself).
ElementAt(src) ==
    IF src[2] = 0 THEN received[src[1]].elems[1] ELSE received[src[1]].elems[src[2]]

\* What the claim says a Request for method with params is answered with.
AnswersOutcome(r, method, params) ==
    IF method \notin Registered
    THEN r.result = ABSENT
         /\ r.error = ErrorNew(-32601, "Unknown method: " \o method)
    ELSE LET o == HandlerCall(method, ParamsOrNull(params))
         IN  CASE o.tag = "ok" -> r.result = o.value /\ r.error = NoError
               [] o.tag = "rpc" ->
                     r.result = ABSENT /\ r.error = ErrorNew(o.code, o.message)
               [] o.tag = "err" ->
                     r.result = ABSENT /\ r.error = ErrorNew(-32603, o.message)
               [] OTHER -> r.result = ABSENT /\ r.error.code = -32603

\* C14: every response written by run for a well-formed Request, single or
\* in a batch, and every response call returns for one, is the one its
\* handler outcome determines.
C14_OutcomeDetermines ==
    /\ \A i \in 1..Len(out) : \A n \in 1..Len(out[i].resps) :
          LET r == out[i].resps[n]
          IN  IsRequestAt(r.src)
              => AnswersOutcome(r, ElementAt(r.src).method, ElementAt(r.src).params)
    /\ \A n \in 1..Len(callOut.resps) :
          LET r == callOut.resps[n]
              e == IF r.src[2] = 0 THEN callIn.elems[1] ELSE callIn.elems[r.src[2]]
          IN  (pc = "called" /\ KindOf(callIn) \in {"Request", "Batch"}
               /\ ~Has(e, "error") /\ DeserRequestOk(e) /\ e.jsonrpc = "2.0")
              => AnswersOutcome(r, e.method, e.params)

\* The handler of the Request at place src panics.
PanicsAt(src) ==
    /\ IsRequestAt(src)
    /\ ElementAt(src).method \in Registered
    /\ HandlerCall(ElementAt(src).method, ParamsOrNull(ElementAt(src).params)).tag
          = "panic"

\* The responses built for the element at place src that are on their way:
\* held by a worker, in the response channel, in a batch slot or written.
ResponsesFor(src) ==
    {wjob[w].response : w \in {v \in Workers : wjob[v].src = src
                                              /\ wstate[v] = "send"}}
    \cup {respChan[i].response : i \in {n \in 1..Len(respChan) :
                                           respChan[n].response.src = src}}
    \cup UNION {{batches[b].responses[n] :
                    n \in {m \in 1..Len(batches[b].responses) :
                              batches[b].responses[m].src = src}} :
                b \in DOMAIN batches}
    \cup {out[w[1]].resps[w[2]] : w \in WritesOf(src)}

\* C15: while run is in its loop, a Request whose handler has panicked has a
\* response with code -32603 (or its handler is still running), and the
\* responses written for the other Requests are the ones their own handler
\* outcomes determine.
C15_PanicAnswered ==
    /\ pc \notin {"done", "panicked"}
          => \A src \in invoked :
                PanicsAt(src)
                => \/ \E w \in Workers : wjob[w].src = src /\ wstate[w] = "running"
                   \/ \E r \in ResponsesFor(src) : r.error.code = -32603
    /\ \A i \in 1..Len(out) : \A n \in 1..Len(out[i].resps) :
          LET r == out[i].resps[n]
          IN  (IsRequestAt(r.src) /\ ~PanicsAt(r.src)
               /\ \E src \in invoked : PanicsAt(src))
              => AnswersOutcome(r, ElementAt(r.src).method, ElementAt(r.src).params)

\* The one message a parse failure is answered with.
ParseErrorReply(w) ==
    /\ w.kind = "single"
    /\ w.resps[1].id = "null"
    /\ w.resps[1].result = ABSENT
    /\ w.resps[1].error = ErrorNew(-32700, "Parse error")

\* The writes of run that answer the k-th delivered string.
WritesFor(k) ==
    {i \in 1..Len(out) : \E n \in 1..Len(out[i].resps) : out[i].resps[n].src[1] = k}

\* C16: a string that is not JSON is answered by run with exactly one
\* message, the response -32700 "Parse error" with id null, and by call with
\* that response as its return value; no handler is invoked for it.
C16_ParseError ==
    /\ \A k \in 1..Len(received) :
          received[k] = Garbage
          => /\ Cardinality(WritesFor(k)) = 1
             /\ \A i \in WritesFor(k) : ParseErrorReply(out[i])
             /\ \A src \in invoked : src[1] # k
    /\ (pc = "called" /\ callIn = Garbage) => ParseErrorReply(callOut)

\* C16 witness: run has returned after a string that is not JSON followed by
\* another message.
C16_Witness ==
    /\ pc = "done"
    /\ Len(received) = 2
    /\ received[1] = Garbage

\* A single message with an id key and a method key whose jsonrpc member is
\* missing, no string, or a string other than "2.0".
BadVersionRequest(in) ==
    /\ in.shape = "single"
    /\ in.elems[1].t = "obj"
    /\ Has(in.elems[1], "id")
    /\ Has(in.elems[1], "method")
    /\ in.elems[1].jsonrpc # "2.0"

\* The one message an invalid request is answered with.
InvalidRequestReply(w) ==
    /\ w.kind = "single"
    /\ w.resps[1].result = ABSENT
    /\ w.resps[1].error.code = -32600

\* C17: a single message with an id key and a method key and a jsonrpc member
\* missing or other than "2.0" is answered with exactly one response -32600,
\* by run and by call, and no handler is invoked.
C17_BadVersionInvalid ==
    /\ \A k \in 1..Len(received) :
          BadVersionRequest(received[k])
          => /\ Cardinality(WritesFor(k)) = 1
             /\ \A i \in WritesFor(k) : InvalidRequestReply(out[i])
             /\ \A src \in invoked : src[1] # k
    /\ (pc = "called" /\ BadVersionRequest(callIn))
          => /\ FromJson(callIn).kind = "Invalid"
             /\ InvalidRequestReply(callOut)

\* The id the claim gives the reply to a single message that failed
\* classification: the message's own id when it is null, a non-negative
\* integer or a string, else null.
OwnIdOrNull(e) == IF e.id \in {"null", "n1", "n2", "sa"} THEN e.id ELSE "null"

\* A single message that fails classification.
FailsClassification(in) == in.shape = "single" /\ FromJson(in).kind = "Invalid"

C20_EmptyArray ==
    /\ [](\A k \in 1..Len(received) :
             received[k] = Array(<<>>)
             => /\ Cardinality(WritesFor(k)) = 1
                /\ \A i \in WritesFor(k) :
                      InvalidRequestReply(out[i]) /\ out[i].resps[1].id = "null"
                /\ \A src \in invoked : src[1] # k)
    /\ []((pc = "called" /\ callIn = Array(<<>>))
             => InvalidRequestReply(callOut) /\ callOut.resps[1].id = "null")
    /\ [][(Len(received') = Len(received) + 1
            /\ received'[Len(received')] = Array(<<>>))
           => (batches' = batches /\ jobs' = jobs /\ respChan' = respChan
               /\ invoked' = invoked /\ pc' = "top")]_vars

\* C20 witness: run has returned after an empty array, with its one reply
\* written and no BatchContext.
C20_Witness ==
    /\ pc = "done"
    /\ batches = <<>>
    /\ \E k \in 1..Len(received) :
          received[k] = Array(<<>>) /\ Cardinality(WritesFor(k)) = 1

\* A single message without an id key and with a method key that fails
\* classification: a broken notification.
BrokenNotification(in) ==
    /\ in.shape = "single"
    /\ NoIdWithMethod(in.elems[1])
    /\ FromJson(in).kind = "Invalid"

\* C21: a single broken notification is discarded without output: run
\* writes nothing for it and call returns no string.
C21_BrokenNotificationSilent ==
    /\ \A k \in 1..Len(received) :
          BrokenNotification(received[k]) => WritesFor(k) = {}
    /\ (pc = "called" /\ BrokenNotification(callIn))
          => callOut.kind \notin {"single", "array"}

\* The params of a Request do not deserialize into the parameter type of its
\* handler: hello takes a string, internal_error takes the unit (null).
ParamsMismatch(e) ==
    \/ e.method = "hello" /\ ParamsOrNull(OptValue(e.params)) \notin {"world", "earth"}
    \/ e.method = "internal_error" /\ ParamsOrNull(OptValue(e.params)) # "null"

FieldComplete(e) ==
    /\ e.t = "obj"
    /\ e.jsonrpc = "2.0"
    /\ \/ /\ IdOk(e.id) /\ e.method \notin {ABSENT, "nonstr"} /\ e.params # ABSENT
          /\ e.error = ABSENT /\ e.result = ABSENT
       \/ /\ e.id = ABSENT /\ e.method \notin {ABSENT, "nonstr"} /\ e.params # ABSENT
          /\ e.error = ABSENT /\ e.result = ABSENT
       \/ /\ IdOk(e.id) /\ e.method = ABSENT /\ e.params = ABSENT
          /\ \/ e.error = "errobj" /\ e.result = ABSENT
             \/ e.error = ABSENT /\ e.result # ABSENT

\* C23: for a field-complete Request, Notification or Response x, from_json
\* succeeds and to_json of its value is x again, null among the values of
\* params and result.
C23_RoundTrip ==
    (pc = "parsed" /\ callIn.shape = "single" /\ FieldComplete(callIn.elems[1]))
        => (callOut.kind = "json" /\ callOut.json = callIn)

\* A single well-formed Response of a peer: version 2.0, an id, an error
\* object.
SingleResponse(in) ==
    /\ in.shape = "single"
    /\ in.elems[1].t = "obj"
    /\ in.elems[1].jsonrpc = "2.0"
    /\ IdOk(in.elems[1].id)
    /\ in.elems[1].error = "errobj"

\* C24: a single inbound Response is discarded: the step of run that
\* receives it writes nothing, calls and dispatches no handler and leaves
\* the batch contexts as they were; nothing is ever written or invoked for
\* it; and call returns None for it.
C24_ResponseDiscarded ==
    /\ [](\A k \in 1..Len(received) :
            SingleResponse(received[k])
            => /\ WritesFor(k) = {}
               /\ \A src \in invoked : src[1] # k
               /\ \A i \in 1..Len(jobs) : jobs[i].src[1] # k
               /\ \A i \in 1..Len(respChan) : respChan[i].response.src[1] # k)
    /\ []((pc = "called" /\ SingleResponse(callIn)) => callOut = NoOutput)
    /\ [][(Len(received') = Len(received) + 1
              /\ SingleResponse(received'[Len(received')]))
           => (/\ out' = out
               /\ invoked' = invoked
               /\ jobs' = jobs
               /\ respChan' = respChan
               /\ batches' = batches
               /\ next_batch_id' = next_batch_id)]_vars

\* C24 witness: run has returned after a single Response and has written
\* nothing.
C24_Witness ==
    /\ pc = "done"
    /\ out = <<>>
    /\ \E k \in 1..Len(received) : SingleResponse(received[k])

\* The one response -32603 "Batch requests not yet supported".
BatchUnsupportedReply(w) ==
    /\ w.kind = "single"
    /\ w.resps[1].error = ErrorNew(-32603, "Batch requests not yet supported")
    /\ w.resps[1].result = ABSENT

C27_SignalIdempotent ==
    /\ [](signal_calls >= 1 => is_shutdown_requested(shutdown))
    /\ [][is_shutdown_requested(shutdown) => is_shutdown_requested(shutdown')]_vars
    /\ [](check_shutdown(shutdown) = "Err" <=> is_shutdown_requested(shutdown))

\* C27 witness: signal() has been called three times and the flag is set.
C27_Witness ==
    /\ pc = "flag"
    /\ signal_calls = 3
    /\ is_shutdown_requested(shutdown)
    /\ check_shutdown(shutdown) = "Err"

\* from_json has been applied to a non-empty array.
ParsedArray == pc = "parsed" /\ callIn.shape = "array" /\ Len(callIn.elems) > 0

\* The element fails classification: from_json_internal returns Err for it.
ElementFails(e) == FromJsonInternal(e, 0).kind = "Invalid"

\* The places, in the batch from_json returned, of the messages that stand
\* for the element at position p of the array.
PlacesOf(p) ==
    {i \in 1..Len(callOut.parsed.msgs) : callOut.parsed.msgs[i].pos = p}

\* The element at position p is replaced, at its position, by the one error
\* Response -32600 with this id.
ReplacedBy(p, id) ==
    /\ Cardinality(PlacesOf(p)) = 1
    /\ \A i \in PlacesOf(p) :
          /\ callOut.parsed.msgs[i].kind = "Response"
          /\ callOut.parsed.msgs[i].id = id
          /\ callOut.parsed.msgs[i].error.code = -32600
          /\ callOut.parsed.msgs[i].result = ABSENT

\* C28: from_json on a non-empty array returns a batch whatever its
\* elements; the messages keep the order of the elements; an element that
\* classifies gives one message; a failed element with an id that is null, a
\* non-negative integer or a string gives the error Response -32600 with
\* that id, one with no id key and a method key gives no message, one with
\* neither gives the error Response -32600 with id null.
C28_FailedElement ==
    ParsedArray
    => /\ callOut.kind = "json"
       /\ callOut.parsed.kind = "Batch"
       /\ \A i, j \in 1..Len(callOut.parsed.msgs) :
             i < j => callOut.parsed.msgs[i].pos < callOut.parsed.msgs[j].pos
       /\ \A p \in 1..Len(callIn.elems) :
             LET e == callIn.elems[p]
             IN  IF ~ElementFails(e)
                 THEN Cardinality(PlacesOf(p)) = 1
                 ELSE /\ (Has(e, "id") /\ IdOk(e.id)) => ReplacedBy(p, e.id)
                      /\ (~Has(e, "id") /\ Has(e, "method")) => PlacesOf(p) = {}
                      /\ (~Has(e, "id") /\ ~Has(e, "method")) => ReplacedBy(p, "null")

\* C28 witness: from_json has been applied to an array of a failed element
\* with an id and a failed element with a method and no id, and returned a
\* batch of the one error Response.
C28_Witness ==
    /\ ParsedArray
    /\ callIn = Array(<<Obj("1.0", "n1", "hello", "world", ABSENT, ABSENT),
                        Obj("1.0", ABSENT, "hello", "world", ABSENT, ABSENT)>>)
    /\ Len(callOut.parsed.msgs) = 1
    /\ callOut.parsed.msgs[1].id = "n1"

\* C29: in a batch, a failed element whose id is of an unrecognized type is
\* dropped when it has a method key, and gives the error Response -32600
\* with id null only when it has none.
C29_BadIdCountsAsAbsent ==
    ParsedArray
    => \A p \in 1..Len(callIn.elems) :
          LET e == callIn.elems[p]
          IN  (ElementFails(e) /\ Has(e, "id") /\ ~IdOk(e.id))
              => IF Has(e, "method")
                 THEN PlacesOf(p) = {}
                 ELSE ReplacedBy(p, "null")

\* C30: two Requests of one batch can run their handlers at the same time,
\* so a worker that has taken a Request of a batch is never kept from
\* starting its handler by the handler of another Request of that batch.
C30_BatchHandlersOverlap ==
    \A w1, w2 \in Workers :
        (/\ w1 # w2
         /\ wstate[w1] = "wait"
         /\ wstate[w2] = "running"
         /\ wjob[w1].batch_id # NoBatch
         /\ wjob[w1].batch_id = wjob[w2].batch_id)
        => lock.holder # w2

\* The complete array of the batch delivered as the k-th string has been
\* written.
ArrayWritten(k) ==
    \E i \in 1..Len(out) :
        /\ out[i].kind = "array"
        /\ BatchOf(out[i]) = k
        /\ Len(out[i].resps) = Len(SlotsOf(k))

\* Every handler that was started has returned and no job waits: the pool
\* is at rest, no worker died and the handlers mutex is sound.
HandlersFinished ==
    /\ jobs = <<>>
    /\ \A w \in Workers : wstate[w] = "idle"
    /\ ~lock.poisoned

\* C31: a batch with at least one Request gets its array written without
\* any further message and without the shutdown signal: when every handler
\* has returned and run waits in receive_message, with the signal not set,
\* the array of every such batch has been written (nothing but a new
\* message, EOF or the signal can make run move from there).
C31_BatchWrittenWithoutInput ==
    (pc = "recv" /\ ~shutdown /\ HandlersFinished)
    => \A k \in 1..Len(received) :
          (KindOf(received[k]) = "Batch" /\ RequestsOf(k) # {}) => ArrayWritten(k)

\* The batch id run gave the k-th delivered string, a batch: ids start at 0
\* and every batch takes one.
BatchIdOf(k) ==
    Cardinality({j \in 1..(k - 1) : KindOf(received[j]) = "Batch"})

\* The delivered string whose batch got the id b.
StringOfBatch(b) ==
    CHOOSE k \in 1..Len(received) : KindOf(received[k]) = "Batch" /\ BatchIdOf(k) = b

\* The tagged response made for the element at place src carries the slot
\* index of that element: its rank among the Requests and
\* Responses of its batch, counted from 0, notifications skipped.
SlotIndexRight(src, batch_id, batch_index) ==
    batch_id # NoBatch
    => /\ batch_id = BatchIdOf(src[1])
       /\ batch_index + 1 \in 1..Len(SlotsOf(src[1]))
       /\ SlotsOf(src[1])[batch_index + 1].pos = src[2]

\* The slots of every live context, and the indices of the responses that
\* wait to be stored.
C32_Slots ==
    /\ \A b \in DOMAIN batches :
          /\ \E k \in 1..Len(received) :
                KindOf(received[k]) = "Batch" /\ BatchIdOf(k) = b
          /\ LET k == StringOfBatch(b)
                 slots == SlotsOf(k)
                 batch == batches[b]
             IN  /\ Len(batch.responses) = Len(slots)
                 /\ batch.expected_count = Len(slots)
                 /\ Len(slots) > 0
                 /\ Completed(batch.responses) < batch.expected_count
                 /\ \A i \in 1..Len(batch.responses) :
                       batch.responses[i] # NoResponse
                       => batch.responses[i].src = <<k, slots[i].pos>>
                 /\ \A i, j \in 1..Len(batch.order) :
                       i # j => batch.order[i] # batch.order[j]
    /\ \A i \in 1..Len(respChan) :
          SlotIndexRight(respChan[i].response.src, respChan[i].batch_id,
                         respChan[i].batch_index)

\* A step never writes a filled slot again, and a context leaves the table
\* in the step that fills its last slot and writes the array.
C32_Step ==
    \A b \in DOMAIN batches :
        IF b \in DOMAIN batches'
        THEN \A i \in 1..Len(batches[b].responses) :
                batches[b].responses[i] # NoResponse
                => batches'[b].responses[i] = batches[b].responses[i]
        ELSE /\ Completed(batches[b].responses) = batches[b].expected_count - 1
             /\ respChan # <<>>
             /\ Head(respChan).batch_id = b
             /\ batches[b].responses[Head(respChan).batch_index + 1] = NoResponse
             /\ Len(out') = Len(out) + 1
             /\ out'[Len(out')].kind = "array"
             /\ Len(out'[Len(out')].resps) = batches[b].expected_count

\* C32: the context of an admitted batch has one slot for each Request and
\* Response element; slot indices follow the order of the array, counted
\* from 0 and skipping notifications; no slot is written twice; and the
\* context is removed in the step that fills its last slot.
C32_BatchContextSlots == []C32_Slots /\ [][C32_Step]_vars

\* C32 witness: the array of a batch that holds a notification between a
\* Request and a Response has been written with its two entries and the
\* context is gone.
C32_Witness ==
    /\ DOMAIN batches = {}
    /\ \E i \in 1..Len(out) :
          /\ out[i].kind = "array"
          /\ Len(out[i].resps) = 2
          /\ \E p \in 1..Len(received[BatchOf(out[i])].elems) :
                WellFormedNotification(received[BatchOf(out[i])].elems[p])

\* The workers that run a job: the thread has taken it and has not yet sent
\* its response.
Busy == {w \in Workers : wstate[w] \in {"wait", "running", "send"}}

\* The pool has the workers ThreadPool::new spawned and no others, no more
\* jobs run than it has workers, and no job runs twice or runs while it is
\* still queued.
C33_Pool ==
    /\ DOMAIN wstate = 1..PoolSize
    /\ Cardinality(Busy) <= PoolSize
    /\ \A v, w \in Busy : v # w => wjob[v].src # wjob[w].src
    /\ \A w \in Busy : \A i \in 1..Len(jobs) : jobs[i].src # wjob[w].src

\* A step starts a job only on a worker that was free, the oldest job
\* first; a job submitted while every worker is busy or dead is queued and
\* starts nothing; a worker thread that has died is not replaced.
C33_Step ==
    /\ Len(jobs') < Len(jobs)
          => /\ jobs' = Tail(jobs)
             /\ \E w \in Workers :
                   /\ wstate[w] = "idle"
                   /\ wstate'[w] = "wait"
                   /\ wjob'[w] = Head(jobs)
                   /\ \A v \in Workers \ {w} : wstate'[v] = wstate[v] /\ wjob'[v] = wjob[v]
    /\ (Len(jobs') > Len(jobs) /\ \A w \in Workers : wstate[w] # "idle")
          => /\ Len(jobs') = Len(jobs) + 1
             /\ SubSeq(jobs', 1, Len(jobs)) = jobs
             /\ wstate' = wstate
             /\ wjob' = wjob
    /\ Busy' \ Busy # {} => Len(jobs') < Len(jobs)
    /\ \A w \in Workers : wstate[w] = "dead" => wstate'[w] = "dead"

\* C33: never more jobs run than the pool has workers, the workers are those
\* of ThreadPool::new, and a job submitted while all workers are busy waits
\* in the queue until a worker is free.
C33_PoolBounded == []C33_Pool /\ [][C33_Step]_vars

\* C33 witness: every worker runs a job and a third job waits in the queue.
C33_Witness ==
    /\ Busy = Workers
    /\ jobs # <<>>

AllowedCodes == {-32700, -32600, -32601, -32602, -32603} \cup (-32099..-32000)

\* C35: every error code in a response that run writes or call returns is
\* one of -32700, -32600, -32601, -32602, -32603 or lies in
\* [-32099, -32000], whatever the handlers return.
C35_CodesInRange ==
    /\ \A i \in 1..Len(out) : \A n \in 1..Len(out[i].resps) :
          HasError(out[i].resps[n]) => out[i].resps[n].error.code \in AllowedCodes
    /\ \A n \in 1..Len(callOut.resps) :
          HasError(callOut.resps[n]) => callOut.resps[n].error.code \in AllowedCodes

\* C36: in Server::run at most one further message is admitted after
\* ShutdownSignal::signal.  The flag stays set; once it is set and run is not
\* blocked in receive_message, no message is received and receive_message is
\* not called again; a message received with the flag set is dispatched to the
\* end (the loop is left only at its top, or by a panic that unwinds run);
\* and the flag is read only at the top of the loop, so that a run blocked in
\* receive_message does not end on the signal alone.
C36_Flag == pc = "recv" => ~observed

RegisteredNotificationsOf(k) ==
    IF KindOf(received[k]) \in {"Notification", "Batch"}
    THEN LET msgs == FromJson(received[k]).msgs
         IN  {<<k, msgs[i].pos>> :
                 i \in {n \in 1..Len(msgs) : /\ msgs[n].kind = "Notification"
                                             /\ msgs[n].method \in Registered}}
    ELSE {}

\* C37: in Server::run the handler of every well-formed Notification with a
\* registered method has been invoked by the time run has finished with the
\* string that carried it (a later string has been received, or run is back
\* at the top of the loop, in receive_message, in a drain loop, or has
\* returned), whether the string is a single Notification, a batch with
\* Requests or a batch of Notifications only.
C37_NotificationsInvoked ==
    \A k \in 1..Len(received) :
        (k < Len(received) \/ pc \in {"top", "recv", "drain", "final", "done"})
            => RegisteredNotificationsOf(k) \subseteq invoked

\* A batch element as from_json leaves it is a Request, a Notification, or
\* the -32600 Response made for an element that failed classification.
BatchElementKind(e, msg) ==
    \/ msg.kind \in {"Request", "Notification"}
    \/ /\ msg.kind = "Response"
       /\ FromJsonInternal(e, msg.pos).kind = "Invalid"
       /\ msg.result = ABSENT
       /\ msg.error = invalid_request("Invalid Request")

\* The element is a Response supplied by the peer.
PeerResponse(e) == e.t = "obj" /\ FromJsonInternal(e, 0).kind = "Response"

\* C38: every element of a Message::Batch from_json produces is a Request, a
\* Notification or a synthesized -32600 Response, never a Response of the
\* peer; and no entry of an array written by run or returned by call answers
\* an element that is a peer Response.
C38_NoPeerResponseInBatch ==
    /\ \A k \in 1..Len(received) :
           KindOf(received[k]) = "Batch" =>
               LET msgs == FromJson(received[k]).msgs
               IN  \A i \in 1..Len(msgs) :
                       BatchElementKind(received[k].elems[msgs[i].pos], msgs[i])
    /\ \A i \in 1..Len(out) :
           out[i].kind = "array" =>
               \A n \in 1..Len(out[i].resps) :
                   ~PeerResponse(ElementAt(out[i].resps[n].src))
    /\ (pc = "called" /\ callIn.shape = "array" /\ callOut.kind = "array") =>
           \A n \in 1..Len(callOut.resps) :
               ~PeerResponse(callIn.elems[callOut.resps[n].src[2]])

\* Every array written answers elements of one delivered batch, under the
\* batch id of that batch; every response held in a live context answers an
\* element of the batch that context was made for; and every live context
\* has an id that was given out and will not be given out again.
C39_Unmixed ==
    /\ \A i \in 1..Len(out) :
           out[i].kind = "array" =>
               LET k == BatchOf(out[i])
               IN  /\ KindOf(received[k]) = "Batch"
                   /\ out[i].tag = BatchIdOf(k)
                   /\ \A n \in 1..Len(out[i].resps) : out[i].resps[n].src[1] = k
    /\ \A b \in DOMAIN batches :
           /\ b \in 0..(next_batch_id - 1)
           /\ \A i \in 1..Len(batches[b].responses) :
                  batches[b].responses[i] # NoResponse
                  => LET k == batches[b].responses[i].src[1]
                     IN  KindOf(received[k]) = "Batch" /\ BatchIdOf(k) = b

\* A step changes or removes only the context whose id tags the response it
\* takes from the channel, and a context is made under the id no live context
\* has.
C39_Step ==
    /\ \A b \in DOMAIN batches :
           (b \notin DOMAIN batches' \/ batches'[b] # batches[b])
           => respChan # <<>> /\ Head(respChan).batch_id = b /\ respChan' = Tail(respChan)
    /\ \A b \in DOMAIN batches' \ DOMAIN batches :
           b = next_batch_id /\ next_batch_id' = b + 1

\* C39: with several batches in flight in Server::run, every array written
\* holds responses to elements of one batch only, a response is stored only
\* in the context of the batch id it is tagged with, and the live contexts
\* have distinct ids.
C39_BatchesNotMixed == []C39_Unmixed /\ [][C39_Step]_vars

\* C39 witness: two batches were in flight together and the later one was
\* completed first: its array is written while the context of the earlier
\* one, with a response already stored, still waits for a handler.
C39_Witness ==
    /\ 0 \in DOMAIN batches
    /\ Completed(batches[0].responses) > 0
    /\ \E i \in 1..Len(out) :
          out[i].kind = "array" /\ out[i].tag = 1 /\ Len(out[i].resps) > 1

====
